---- MODULE Spec2Model ----
(***************************************************************************)
(* Model of the drug-discovery analyzer: the property transformer          *)
(* (scripts/analysis/molecular_analysis.py), the batch scripts and the     *)
(* Streamlit dashboard script (app.py).                                    *)
(*                                                                         *)
(* A pandas table is a record [cols, rows]: cols is the set of column      *)
(* names and rows a sequence of functions from cols to cells.  A cell is   *)
(* a record [kind, v, s]: kind "num" carries the number v, kind "nan" is   *)
(* the pandas missing value, kind "inf" is floating-point +infinity, kind  *)
(* "str" carries the string s and kind "bool" carries v in {0, 1}.         *)
(* Numbers are integers; ic50 values are drawn from powers of ten so that  *)
(* -log10(ic50 * 1e-9) = 9 - log10(ic50) is exact.                         *)
(***************************************************************************)
EXTENDS Integers, Sequences, FiniteSets, TLC

VARIABLES
    input,          \* SpecTransform: the table as built by the caller, before any call
    caller,         \* SpecTransform: the caller's table object, as it is now
    result,         \* SpecTransform: what the last call returned
    csv,            \* SpecBatch: the CSV file handed to a batch script
    batch,          \* SpecBatch: what the batch script did with it
    data_loaded,    \* Spec: st.session_state.data_loaded
    df,             \* Spec: st.session_state.df
    uploaded_file,  \* Spec: the file held by the st.sidebar.file_uploader widget
    sample,         \* Spec: data/raw/default_drug_data.csv as load_data finds it
    view,           \* Spec: what the last dashboard pass did and displayed
    fetch           \* SpecFetch: fetch_and_save_compounds, its loop and its output

vars == <<input, caller, result, csv, batch, data_loaded, df, uploaded_file, sample, view, fetch>>

-----------------------------------------------------------------------------
(* Bounds *)

MaxRows == 2        \* rows of a table handed to a transform
MaxCsvRows == 2     \* rows of a CSV file handed to a batch script
MaxFileRows == 2    \* rows of a file loaded into the dashboard
MaxTargets == 3     \* target names given to fetch_and_save_compounds

-----------------------------------------------------------------------------
(* Cells *)

NaN == [kind |-> "nan", v |-> 0, s |-> ""]
PosInf == [kind |-> "inf", v |-> 0, s |-> ""]
Num(n) == [kind |-> "num", v |-> n, s |-> ""]
Str(x) == [kind |-> "str", v |-> 0, s |-> x]
Bool(b) == [kind |-> "bool", v |-> IF b THEN 1 ELSE 0, s |-> ""]

isnull(c) == c.kind = "nan"

\* c > k on a float column: a missing value compares False, +inf is above all
Gt(c, k) == (c.kind = "num" /\ c.v > k) \/ c.kind = "inf"
\* (x).astype(int) of a boolean
AsInt(b) == IF b THEN 1 ELSE 0

-----------------------------------------------------------------------------
(* Tables *)

required_cols == {"chembl_id", "name", "target", "ic50", "mw", "logp", "hbd", "hba", "psa"}

NoTable == [cols |-> {}, rows |-> <<>>]

\* st.session_state.df: no such attribute yet, None, or a DataFrame
Unset == [kind |-> "unset", cols |-> {}, rows |-> <<>>]
None == [kind |-> "None", cols |-> {}, rows |-> <<>>]
DataFrame(t) == [kind |-> "DataFrame", cols |-> t.cols, rows |-> t.rows]

\* a path with no file behind it, or an empty uploader
NoFile == [exists |-> FALSE, parses |-> FALSE, cols |-> {}, rows |-> <<>>]
\* a CSV file pd.read_csv reads into the table t
File(t) == [exists |-> TRUE, parses |-> TRUE, cols |-> t.cols, rows |-> t.rows]
\* a file pd.read_csv raises EmptyDataError on (zero bytes)
EmptyCsv == [exists |-> TRUE, parses |-> FALSE, cols |-> {}, rows |-> <<>>]

\* dropna without its subset: a row missing any cell at all is dropped
dropna_any(rows, subset) ==
    LET Keep(r) == \A c \in DOMAIN r : ~isnull(r[c])
    IN  SelectSeq(rows, Keep)

\* df.dropna(subset=...): the rows none of whose subset cells is missing, in order
dropna(rows, subset) ==
    LET Keep(r) == \A c \in subset : ~isnull(r[c])
    IN  SelectSeq(rows, Keep)

\* df.drop(columns=[col])
DropColumn(t, col) ==
    [cols |-> t.cols \ {col},
     rows |-> [i \in 1..Len(t.rows) |-> [c \in t.cols \ {col} |-> t.rows[i][c]]]]

-----------------------------------------------------------------------------
(* calculate_lipinski *)

MwLimit == 500
LogpLimit == 5
HbdLimit == 5
HbaLimit == 10

LipinskiInputs == {"mw", "logp", "hbd", "hba"}

\* c >= k on a float column
Ge(c, k) == (c.kind = "num" /\ c.v >= k) \/ c.kind = "inf"

\* violations with the limits themselves counted as exceeded (>= for >)
violations_ge(r) ==
    AsInt(Ge(r["mw"], MwLimit)) + AsInt(Ge(r["logp"], LogpLimit)) +
    AsInt(Ge(r["hbd"], HbdLimit)) + AsInt(Ge(r["hba"], HbaLimit))

\* the violations expression of calculate_lipinski, for one row
violations(r) ==
    AsInt(Gt(r["mw"], MwLimit)) + AsInt(Gt(r["logp"], LogpLimit)) +
    AsInt(Gt(r["hbd"], HbdLimit)) + AsInt(Gt(r["hba"], HbaLimit))

\* dropna(subset=[...]) raises KeyError when a subset column is absent
LipinskiRaises(t) == ~(LipinskiInputs \subseteq t.cols)

\* calculate_lipinski building its result from the nine required columns only,
\* so that a column derived earlier is lost
calculate_lipinski_required_only(t) ==
    LET kept == dropna(t.rows, LipinskiInputs)
        cols2 == (t.cols \cap required_cols) \cup {"lipinski_violations", "is_drug_like"}
    IN  [cols |-> cols2,
         rows |-> [i \in 1..Len(kept) |->
                    [c \in cols2 |->
                        IF c = "lipinski_violations" THEN Num(violations(kept[i]))
                        ELSE IF c = "is_drug_like" THEN Bool(violations(kept[i]) = 0)
                        ELSE kept[i][c]]]]

\* The table object passed to calculate_lipinski after the call; the function
\* works in place (dropna(inplace=True), df[...] = ...) and returns that object.
calculate_lipinski(t) ==
    LET kept == dropna(t.rows, LipinskiInputs)
        cols2 == t.cols \cup {"lipinski_violations", "is_drug_like"}
    IN  [cols |-> cols2,
         rows |-> [i \in 1..Len(kept) |->
                    [c \in cols2 |->
                        IF c = "lipinski_violations" THEN Num(violations(kept[i]))
                        ELSE IF c = "is_drug_like" THEN Bool(violations(kept[i]) = 0)
                        ELSE kept[i][c]]]]

-----------------------------------------------------------------------------
(* calculate_pic50 *)

RECURSIVE Log10(_)
\* log10 of a positive power of ten
Log10(n) == IF n <= 1 THEN 0 ELSE 1 + Log10(n \div 10)

\* df['ic50'] * 1e-9, then .loc[ic50_M <= 0] = nan: the molar value is kept as
\* its nanomolar numerator, missing when it is not positive
ic50_M(c) == IF c.kind = "num" /\ c.v > 0 THEN c ELSE NaN

\* -np.log10(x) of a molar value x = n * 1e-9
NegLog10Molar(c) ==
    IF c.kind = "num" /\ c.v > 0 THEN Num(9 - Log10(c.v))
    ELSE IF c.kind = "num" /\ c.v = 0 THEN PosInf     \* -log10(0) = +inf
    ELSE NaN                                          \* log10 of a negative or missing value

Pic50Raises(t) == ~("ic50" \in t.cols)

\* The table object passed to calculate_pic50 after the call: the columns
\* ic50_M and pIC50 are assigned in place before df.drop builds a new table.
Pic50InPlace(t) ==
    LET cols2 == t.cols \cup {"ic50_M", "pIC50"}
    IN  [cols |-> cols2,
         rows |-> [i \in 1..Len(t.rows) |->
                    [c \in cols2 |->
                        IF c = "ic50_M" THEN ic50_M(t.rows[i]["ic50"])
                        ELSE IF c = "pIC50" THEN NegLog10Molar(ic50_M(t.rows[i]["ic50"]))
                        ELSE t.rows[i][c]]]]

\* The table calculate_pic50 returns
calculate_pic50(t) == DropColumn(Pic50InPlace(t), "ic50_M")

-----------------------------------------------------------------------------
(* Tables handed to the transforms *)

Row(name, target, ic50, mw, logp, hbd, hba, psa) ==
    [c \in required_cols |->
        CASE c = "chembl_id" -> Str("CHEMBL1")
          [] c = "name" -> name
          [] c = "target" -> target
          [] c = "ic50" -> ic50
          [] c = "mw" -> mw
          [] c = "logp" -> logp
          [] c = "hbd" -> hbd
          [] c = "hba" -> hba
          [] c = "psa" -> psa]

\* every combination of mw and logp missing, on and above the limit, with hbd
\* and hba on and above theirs
LimitRows ==
    {Row(Str("A"), Str("COX1"), Num(10), mw, logp, hbd, hba, Num(90)) :
        mw \in {NaN, Num(MwLimit), Num(MwLimit + 1)},
        logp \in {NaN, Num(LogpLimit), Num(LogpLimit + 1)},
        hbd \in {Num(HbdLimit), Num(HbdLimit + 1)},
        hba \in {Num(HbaLimit), Num(HbaLimit + 1)}}

\* rows missing one cell only, and rows differing only in ic50 or psa
OtherRows ==
    {Row(Str("A"), Str("COX1"), Num(10), Num(450), Num(4), NaN, Num(8), Num(90)),
     Row(Str("A"), Str("COX1"), Num(10), Num(450), Num(4), Num(4), NaN, Num(90)),
     Row(NaN, Str("COX1"), Num(10), Num(450), Num(4), Num(4), Num(8), Num(90)),
     Row(Str("A"), NaN, Num(10), Num(450), Num(4), Num(4), Num(8), Num(90)),
     Row(Str("A"), Str("EGFR"), NaN, Num(450), Num(4), Num(4), Num(8), Num(90)),
     Row(Str("A"), Str("EGFR"), Num(10), Num(450), Num(4), Num(4), Num(8), NaN),
     Row(Str("A"), Str("EGFR"), Num(0), Num(450), Num(4), Num(4), Num(8), Num(200)),
     Row(Str("A"), Str("EGFR"), Num(-10), Num(620), Num(6), Num(6), Num(11), Num(150)),
     Row(Str("A"), Str("EGFR"), Num(1000), Num(620), Num(6), Num(6), Num(11), Num(150))}

TransformRows == LimitRows \cup OtherRows

SeqsUpTo(S, n) == UNION {[1..k -> S] : k \in 0..n}

TransformTables == {[cols |-> required_cols, rows |-> rs] : rs \in SeqsUpTo(TransformRows, MaxRows)}

NoCall == [called |-> "none", same_object |-> FALSE, table |-> NoTable]

NoBatch == [script |-> "none"]

\* a dashboard pass that did not reach the main section
NoMain ==
    [pass |-> "none", event |-> "none", exception |-> "none", missing_cols |-> {},
     lipinski_calls |-> 0, pic50_calls |-> 0,
     mw_bounds |-> <<NaN, NaN>>, logp_bounds |-> <<NaN, NaN>>, pic50_bounds |-> <<NaN, NaN>>,
     total |-> 0, unique_targets |-> 0, drug_like_count |-> 0, pct |-> NaN, avg |-> NaN,
     selected_targets |-> {}, drug_like_only |-> FALSE,
     mw_range |-> <<NaN, NaN>>, logp_range |-> <<NaN, NaN>>,
     pic50_slider |-> FALSE, pic50_range |-> <<NaN, NaN>>,
     filtered_df |-> <<>>, plotted |-> FALSE]

NoView == NoMain

\* fetch_and_save_compounds not called
NoFetch ==
    [target_names |-> <<>>, remote |-> <<>>, i |-> 1, all_target_dfs |-> <<>>,
     stderr |-> <<>>, returned |-> FALSE, saved |-> FALSE, final_df |-> <<>>]

InitTransform ==
    /\ input \in TransformTables
    /\ caller = input
    /\ result = NoCall
    /\ csv = NoFile
    /\ batch = NoBatch
    /\ data_loaded = FALSE
    /\ df = Unset
    /\ uploaded_file = NoFile
    /\ sample = NoFile
    /\ view = NoView
    /\ fetch = NoFetch

\* calculate_lipinski working on a private copy of its argument
CallLipinskiOnCopy ==
    /\ result.called = "none"
    /\ result' = [called |-> "calculate_lipinski", same_object |-> FALSE,
                  table |-> calculate_lipinski(caller)]
    /\ UNCHANGED <<fetch, input, caller, csv, batch, data_loaded, df, uploaded_file, sample, view>>

\* result_df = molecular_analysis.calculate_lipinski(df): the caller's object is
\* changed in place and returned
CallLipinski ==
    /\ result.called = "none"
    /\ caller' = calculate_lipinski(caller)
    /\ result' = [called |-> "calculate_lipinski", same_object |-> TRUE,
                  table |-> calculate_lipinski(caller)]
    /\ UNCHANGED <<fetch, input, csv, batch, data_loaded, df, uploaded_file, sample, view>>

\* result_df = molecular_analysis.calculate_pic50(df): the caller's object gets
\* ic50_M and pIC50 in place; a new table without ic50_M is returned
CallPic50 ==
    /\ result.called = "none"
    /\ caller' = Pic50InPlace(caller)
    /\ result' = [called |-> "calculate_pic50", same_object |-> FALSE,
                  table |-> calculate_pic50(caller)]
    /\ UNCHANGED <<fetch, input, csv, batch, data_loaded, df, uploaded_file, sample, view>>

\* data_with_pic50 = calculate_pic50(data_with_lipinski): the second transform
\* on what calculate_lipinski returned, which is the caller's own object
Pic50AfterLipinski ==
    /\ result.called = "calculate_lipinski"
    /\ ~Pic50Raises(result.table)
    /\ caller' = Pic50InPlace(caller)
    /\ result' = [called |-> "lipinski_then_pic50", same_object |-> FALSE,
                  table |-> calculate_pic50(result.table)]
    /\ UNCHANGED <<fetch, input, csv, batch, data_loaded, df, uploaded_file, sample, view>>

\* the two transforms in the other order: calculate_lipinski on the new table
\* calculate_pic50 returned, which it changes in place and returns
LipinskiAfterPic50 ==
    /\ result.called = "calculate_pic50"
    /\ ~LipinskiRaises(result.table)
    /\ result' = [called |-> "pic50_then_lipinski", same_object |-> FALSE,
                  table |-> calculate_lipinski(result.table)]
    /\ UNCHANGED <<fetch, input, caller, csv, batch, data_loaded, df, uploaded_file, sample, view>>

NextTransform == CallLipinski \/ CallPic50 \/ Pic50AfterLipinski \/ LipinskiAfterPic50

SpecTransform == InitTransform /\ [][NextTransform]_vars

-----------------------------------------------------------------------------
(* Claims about calculate_lipinski *)

Limit(c) ==
    CASE c = "mw" -> 500 [] c = "logp" -> 5 [] c = "hbd" -> 5 [] c = "hba" -> 10

AllPresent(r) == \A c \in LipinskiInputs : r[c].kind = "num"

\* the number of the four conditions that hold for a row
Exceeded(r) == Cardinality({c \in LipinskiInputs : r[c].v > Limit(c)})

C9_CallerTableUntouched ==
    result.called = "calculate_lipinski" => (caller = input /\ ~result.same_object)

\* C9 amended: calculate_lipinski works in place; after the call the caller's
\* table is the returned table, with lipinski_violations and is_drug_like added
\* and the rows missing an input removed.
C9_InPlace ==
    result.called = "calculate_lipinski"
    => /\ result.same_object
       /\ caller = result.table
       /\ caller.cols = input.cols \cup {"lipinski_violations", "is_drug_like"}
       /\ Len(caller.rows) = Cardinality({i \in 1..Len(input.rows) : AllPresent(input.rows[i])})

\* the caller's two-row table has lost a row and gained the two columns
C9_Witness ==
    /\ result.called = "calculate_lipinski"
    /\ Len(input.rows) = 2
    /\ Len(caller.rows) = 1
    /\ "is_drug_like" \in caller.cols

RECURSIVE PresentRows(_)
\* the rows with all four inputs present, in their order
PresentRows(rows) ==
    IF rows = <<>> THEN <<>>
    ELSE (IF AllPresent(Head(rows)) THEN <<Head(rows)>> ELSE <<>>) \o PresentRows(Tail(rows))

\* the rows of a table cut down to the given columns
Project(t, cols) == [i \in 1..Len(t.rows) |-> [c \in cols |-> t.rows[i][c]]]

\* C10: the result of calculate_lipinski holds, in their original order and with
\* their input cells unchanged, exactly the input rows in which mw, logp, hbd and
\* hba are all present; a row missing only ic50, psa, name or target is kept.
C10_RowsKept ==
    result.called = "calculate_lipinski"
    => Project(result.table, input.cols) = PresentRows(input.rows)

\* of two rows the first, missing mw, is dropped and the second, missing only
\* ic50, is kept
C10_Witness ==
    /\ result.called = "calculate_lipinski"
    /\ Len(input.rows) = 2
    /\ isnull(input.rows[1]["mw"])
    /\ isnull(input.rows[2]["ic50"])
    /\ Len(result.table.rows) = 1
    /\ isnull(result.table.rows[1]["ic50"])

\* C15: the two transforms commute: calculate_lipinski then calculate_pic50
\* returns the table that calculate_pic50 then calculate_lipinski returns, with
\* the same rows in the same order, the same set of columns and the same value
\* in every cell, lipinski_violations, is_drug_like and pIC50 included.
C15_TransformsCommute ==
    /\ result.called = "lipinski_then_pic50"
         => result.table = calculate_lipinski(calculate_pic50(input))
    /\ result.called = "pic50_then_lipinski"
         => result.table = calculate_pic50(calculate_lipinski(input))

\* pIC50 first on a row missing mw and a row whose ic50 is 0: one row is left,
\* drug-like and with a missing pIC50
C15_Witness ==
    /\ result.called = "pic50_then_lipinski"
    /\ Len(input.rows) = 2
    /\ isnull(input.rows[1]["mw"])
    /\ input.rows[2]["ic50"] = Num(0)
    /\ Len(result.table.rows) = 1
    /\ isnull(result.table.rows[1]["pIC50"])
    /\ result.table.rows[1]["is_drug_like"] = Bool(TRUE)

-----------------------------------------------------------------------------
(* The batch scripts: run_analysis and analyze_activity_relationships *)

BatchRows ==
    {Row(Str("A"), Str("COX1"), Num(10), Num(450), Num(4), Num(4), Num(8), Num(90)),
     Row(Str("B"), Str("EGFR"), Num(1000), Num(620), Num(6), Num(6), Num(11), Num(150)),
     Row(Str("C"), Str("EGFR"), Num(0), Num(510), Num(4), Num(5), Num(9), Num(120)),
     Row(Str("D"), Str("COX1"), Num(-10), Num(400), Num(6), Num(3), Num(12), Num(110)),
     Row(Str("E"), Str("COX1"), NaN, NaN, Num(4), Num(4), Num(8), Num(90))}

\* the header of a CSV file: complete, or lacking one required column
CsvHeaders ==
    {required_cols} \cup {required_cols \ {c} : c \in {"psa", "mw", "ic50", "target"}}

\* pd.read_csv of a file with the given header and rows
Table(cols, rows) ==
    [cols |-> cols, rows |-> [i \in 1..Len(rows) |-> [c \in cols |-> rows[i][c]]]]

CsvFiles ==
    {NoFile, EmptyCsv} \cup
    {File(Table(h, rs)) : h \in CsvHeaders, rs \in SeqsUpTo(BatchRows, MaxCsvRows)}

InitBatch ==
    /\ csv \in CsvFiles
    /\ batch = NoBatch
    /\ input = NoTable
    /\ caller = NoTable
    /\ result = NoCall
    /\ data_loaded = FALSE
    /\ df = Unset
    /\ uploaded_file = NoFile
    /\ sample = NoFile
    /\ view = NoView
    /\ fetch = NoFetch

\* the columns each matplotlib plot of run_analysis reads, in calling order
PlotColumns ==
    <<[plot |-> "scatter_logp_vs_mw", cols |-> {"logp", "mw", "ic50"}],
      [plot |-> "histograms_molecular_properties",
       cols |-> {"mw", "logp", "hbd", "hba", "psa", "ic50"}],
      [plot |-> "correlation_heatmap", cols |-> {"mw", "logp", "hbd", "hba", "psa", "ic50"}],
      [plot |-> "boxplots_drug_likeness", cols |-> {"is_drug_like", "mw", "logp", "ic50"}]>>

\* the plots saved before the first one that lacks a column raises KeyError
PlotsSaved(plots, cols) ==
    {plots[i].plot : i \in {j \in 1..Len(plots) : \A k \in 1..j : plots[k].cols \subseteq cols}}

\* run_analysis(input_path, output_dir), from load_data to the last plot
run_analysis(f) ==
    IF ~f.exists
    THEN [script |-> "run_analysis", error |-> "SystemExit", reported_missing |-> {},
          lipinski_ran |-> FALSE, pic50_ran |-> FALSE, plots |-> {}, table |-> NoTable]
    ELSE IF ~f.parses
    THEN [script |-> "run_analysis", error |-> "EmptyDataError", reported_missing |-> {},
          lipinski_ran |-> FALSE, pic50_ran |-> FALSE, plots |-> {}, table |-> NoTable]
    ELSE IF LipinskiRaises(f)
    THEN [script |-> "run_analysis", error |-> "KeyError", reported_missing |-> {},
          lipinski_ran |-> FALSE, pic50_ran |-> FALSE, plots |-> {}, table |-> NoTable]
    ELSE IF Pic50Raises(calculate_lipinski(f))
    THEN [script |-> "run_analysis", error |-> "KeyError", reported_missing |-> {},
          lipinski_ran |-> TRUE, pic50_ran |-> FALSE, plots |-> {}, table |-> NoTable]
    ELSE LET data_with_pic50 == calculate_pic50(calculate_lipinski(f))
             saved == PlotsSaved(PlotColumns, data_with_pic50.cols)
         IN  [script |-> "run_analysis",
              error |-> IF Cardinality(saved) = Len(PlotColumns) THEN "none" ELSE "KeyError",
              reported_missing |-> {},
              lipinski_ran |-> TRUE, pic50_ran |-> TRUE, plots |-> saved,
              table |-> data_with_pic50]

RunAnalysis ==
    /\ batch.script = "none"
    /\ batch' = run_analysis(csv)
    /\ UNCHANGED <<fetch, input, caller, result, csv, data_loaded, df, uploaded_file, sample, view>>

\* df['pIC50'] = -np.log10(df['ic50'] * 1e-9)
ActivityPic50(t) ==
    LET cols2 == t.cols \cup {"pIC50"}
    IN  [cols |-> cols2,
         rows |-> [i \in 1..Len(t.rows) |->
                    [c \in cols2 |->
                        IF c = "pIC50" THEN NegLog10Molar(t.rows[i]["ic50"])
                        ELSE t.rows[i][c]]]]

ActivityProperties == {"mw", "logp", "hbd", "hba", "psa"}

\* analyze_activity_relationships(input_csv_path, output_dir): every exception
\* is caught and printed
analyze_activity_relationships(f) ==
    IF ~f.exists
    THEN [script |-> "analyze_activity_relationships", error |-> "FileNotFoundError",
          table |-> NoTable]
    ELSE IF ~f.parses
    THEN [script |-> "analyze_activity_relationships", error |-> "EmptyDataError",
          table |-> NoTable]
    ELSE IF ~("ic50" \in f.cols)
    THEN [script |-> "analyze_activity_relationships", error |-> "KeyError",
          table |-> NoTable]
    ELSE [script |-> "analyze_activity_relationships",
          error |-> IF ActivityProperties \subseteq f.cols THEN "none" ELSE "KeyError",
          table |-> ActivityPic50(Table(f.cols, f.rows))]

AnalyzeActivityRelationships ==
    /\ batch.script = "none"
    /\ batch' = analyze_activity_relationships(csv)
    /\ UNCHANGED <<fetch, input, caller, result, csv, data_loaded, df, uploaded_file, sample, view>>

NextBatch == RunAnalysis \/ AnalyzeActivityRelationships

SpecBatch == InitBatch /\ [][NextBatch]_vars

\* C2: wherever pIC50 is derived from ic50 (calculate_pic50 in run_analysis, and
\* analyze_activity_relationships), a row with ic50 <= 0 gets a missing pIC50,
\* never a defined or infinite one, a row with ic50 > 0 gets a defined pIC50, and
\* the ic50 column is left as it was.
C2_NonPositiveIc50Missing ==
    (batch.script # "none" /\ "pIC50" \in batch.table.cols)
    => \A i \in 1..Len(batch.table.rows) :
         LET r == batch.table.rows[i]
         IN  /\ (r["ic50"].kind = "num" /\ r["ic50"].v <= 0) => isnull(r["pIC50"])
             /\ (r["ic50"].kind = "num" /\ r["ic50"].v > 0) => r["pIC50"].kind = "num"
             /\ \E j \in 1..Len(csv.rows) : csv.rows[j]["ic50"] = r["ic50"]

\* C6: on a load event the nine required columns are checked before either
\* transform runs; when one is missing the load fails naming the missing columns
\* and neither transform nor any plot runs on the table.
C6_ColumnsCheckedBeforeTransform ==
    (batch.script = "run_analysis" /\ csv.parses /\ ~(required_cols \subseteq csv.cols))
    => /\ batch.reported_missing = required_cols \ csv.cols
       /\ ~batch.lipinski_ran
       /\ ~batch.pic50_ran
       /\ batch.plots = {}

-----------------------------------------------------------------------------
(* The remote fetcher: fetch_and_save_compounds of chembl_fetcher.py *)

\* the names given with --targets, in order
TargetNames == <<"EGFR", "SRC", "COX1", "BRAF", "JAK2">>

\* What ChEMBL answers for one target: target_client.search, activity_client.filter
\* and molecule_client.filter each raise, come back empty or come back with
\* records; compounds is the number of molecules that have properties and an
\* averaged IC50.
Response(search, activities, molecules, compounds) ==
    [search |-> search, activities |-> activities, molecules |-> molecules,
     compounds |-> compounds]

Responses ==
    {Response("raises", "none", "none", 0),
     Response("empty", "none", "none", 0),
     Response("found", "raises", "none", 0),
     Response("found", "empty", "none", 0),
     Response("found", "some", "raises", 0),
     Response("found", "some", "empty", 0),
     Response("found", "some", "some", 0),
     Response("found", "some", "some", 1),
     Response("found", "some", "some", 2)}

InitFetch ==
    /\ \E n \in 1..MaxTargets :
         \E remote \in [1..n -> Responses] :
            fetch = [NoFetch EXCEPT !.target_names = SubSeq(TargetNames, 1, n),
                                    !.remote = remote]
    /\ input = NoTable
    /\ caller = NoTable
    /\ result = NoCall
    /\ csv = NoFile
    /\ batch = NoBatch
    /\ data_loaded = FALSE
    /\ df = Unset
    /\ uploaded_file = NoFile
    /\ sample = NoFile
    /\ view = NoView

\* how the body of the loop ends for one target: an exception caught by the
\* except clause, one of the three "Skipping" branches, or the append
Outcome(r) ==
    IF r.search = "raises" THEN "exception"
    ELSE IF r.search = "empty" THEN "not_found"
    ELSE IF r.activities = "raises" THEN "exception"
    ELSE IF r.activities = "empty" THEN "no_activities"
    ELSE IF r.molecules = "raises" THEN "exception"
    ELSE IF r.molecules = "empty" THEN "no_molecules"
    ELSE "ok"

\* df = pd.DataFrame(data): one row per molecule, labelled with the target name
TargetFrame(target_name, r) ==
    [j \in 1..r.compounds |-> [chembl_id |-> j, target |-> target_name]]

\* the loop body with no try/except around it: an exception leaves the function
ProcessTargetUncaught ==
    /\ ~fetch.returned
    /\ fetch.i <= Len(fetch.target_names)
    /\ LET target_name == fetch.target_names[fetch.i]
           r == fetch.remote[fetch.i]
       IN  fetch' =
             IF Outcome(r) = "ok"
             THEN [fetch EXCEPT !.i = @ + 1,
                                !.all_target_dfs = Append(@, TargetFrame(target_name, r))]
             ELSE IF Outcome(r) = "exception"
             THEN [fetch EXCEPT !.returned = TRUE]
             ELSE [fetch EXCEPT !.i = @ + 1,
                                !.stderr = Append(@, <<target_name, Outcome(r)>>)]
    /\ UNCHANGED <<input, caller, result, csv, batch, data_loaded, df, uploaded_file,
                   sample, view>>

\* one iteration of "for target_name in target_names": the frame of the target
\* is appended, or a message goes to stderr and the loop goes on
ProcessTarget ==
    /\ ~fetch.returned
    /\ fetch.i <= Len(fetch.target_names)
    /\ LET target_name == fetch.target_names[fetch.i]
           r == fetch.remote[fetch.i]
       IN  fetch' =
             IF Outcome(r) = "ok"
             THEN [fetch EXCEPT !.i = @ + 1,
                                !.all_target_dfs = Append(@, TargetFrame(target_name, r))]
             ELSE [fetch EXCEPT !.i = @ + 1,
                                !.stderr = Append(@, <<target_name, Outcome(r)>>)]
    /\ UNCHANGED <<input, caller, result, csv, batch, data_loaded, df, uploaded_file,
                   sample, view>>

RECURSIVE concat(_)
\* pd.concat(all_target_dfs, ignore_index=True)
concat(dfs) == IF dfs = <<>> THEN <<>> ELSE Head(dfs) \o concat(Tail(dfs))

\* after the loop: return with a message when nothing was fetched, else combine
\* the frames and save them
CombineAndSave ==
    /\ ~fetch.returned
    /\ fetch.i > Len(fetch.target_names)
    /\ fetch' =
         IF fetch.all_target_dfs = <<>>
         THEN [fetch EXCEPT !.returned = TRUE, !.stderr = Append(@, <<"", "no_data">>)]
         ELSE [fetch EXCEPT !.returned = TRUE, !.saved = TRUE,
                            !.final_df = concat(fetch.all_target_dfs)]
    /\ UNCHANGED <<input, caller, result, csv, batch, data_loaded, df, uploaded_file,
                   sample, view>>

NextFetch == ProcessTarget \/ CombineAndSave

SpecFetch == InitFetch /\ [][NextFetch]_vars

\* the target at position k got through search, activities and molecules
Succeeded(k) ==
    /\ fetch.remote[k].search = "found"
    /\ fetch.remote[k].activities = "some"
    /\ fetch.remote[k].molecules = "some"

\* the rows of the combined output that carry the name of the target at k
RowsOf(k) == {n \in 1..Len(fetch.final_df) : fetch.final_df[n].target = fetch.target_names[k]}

\* C16: a target that fails (not found, no activities, no molecule details, or
\* an exception) is skipped with a message: the loop reaches every later
\* target, and the combined output holds all the compounds of every target that
\* succeeded, before or after a failing one, in the order of the targets, and
\* nothing of a target that failed.
C16_FailedTargetSkipped ==
    /\ Len(fetch.stderr) >= Cardinality({k \in 1..(fetch.i - 1) : ~Succeeded(k)})
    /\ Len(fetch.all_target_dfs) = Cardinality({k \in 1..(fetch.i - 1) : Succeeded(k)})
    /\ fetch.returned =>
        /\ fetch.i = Len(fetch.target_names) + 1
        /\ fetch.saved <=> \E k \in 1..Len(fetch.target_names) : Succeeded(k)
        /\ \A k \in 1..Len(fetch.target_names) :
             Cardinality(RowsOf(k)) = IF Succeeded(k) THEN fetch.remote[k].compounds ELSE 0
        /\ \A k1, k2 \in 1..Len(fetch.target_names) :
             k1 < k2 => \A n1 \in RowsOf(k1), n2 \in RowsOf(k2) : n1 < n2

\* three targets, the second raising in the search: the output holds the
\* compounds of the first and of the third
C16_Witness ==
    /\ fetch.returned /\ fetch.saved
    /\ Len(fetch.target_names) = 3
    /\ fetch.remote[2].search = "raises"
    /\ fetch.remote[1].compounds = 1
    /\ fetch.remote[3].compounds = 2
    /\ Len(fetch.final_df) = 3
    /\ fetch.final_df[3].target = "COX1"

-----------------------------------------------------------------------------
(* The dashboard script app.py: one pass is one run of the script from top to *)
(* bottom, on the session state and the widget values of that run.            *)

\* rows of the files loaded into the dashboard: a drug-like one, one over the mw
\* limit, and a drug-like one on the limits whose ic50 is 0
DashRows ==
    {Row(Str("A"), Str("COX1"), Num(10), Num(500), Num(4), Num(5), Num(10), Num(90)),
     Row(Str("B"), Str("EGFR"), Num(100), Num(501), Num(5), Num(4), Num(8), Num(150)),
     Row(Str("C"), Str("COX1"), Num(0), Num(500), Num(5), Num(4), Num(8), Num(120))}

\* files a user can put in the uploader: complete ones, ones lacking a required
\* column, and one that does not parse
UploadFiles ==
    {File(Table(required_cols, rs)) : rs \in SeqsUpTo(DashRows, MaxFileRows)}
    \cup {File(Table(required_cols \ {c}, <<r>>)) : c \in {"psa", "mw"}, r \in DashRows}
    \cup {EmptyCsv}

\* the sample dataset shipped with the dashboard, when it is there
SampleFiles ==
    {NoFile,
     File(Table(required_cols,
        <<Row(Str("A"), Str("COX1"), Num(10), Num(500), Num(4), Num(5), Num(10), Num(90)),
          Row(Str("B"), Str("EGFR"), Num(100), Num(501), Num(5), Num(4), Num(8), Num(150))>>))}

Init ==
    /\ data_loaded = FALSE
    /\ df = Unset
    /\ uploaded_file = NoFile
    /\ sample \in SampleFiles
    /\ view = NoView
    /\ fetch = NoFetch
    /\ input = NoTable
    /\ caller = NoTable
    /\ result = NoCall
    /\ csv = NoFile
    /\ batch = NoBatch

\* st.session_state.df = calculate_lipinski(df.copy()); then calculate_pic50(df.copy()):
\* the session after the two assignments, or after the one that raised
LoadTransforms(s) ==
    LET with_lipinski == calculate_lipinski(s.df)
    IN  IF LipinskiRaises(s.df)
        THEN [s EXCEPT !.exception = "KeyError"]
        ELSE IF Pic50Raises(with_lipinski)
        THEN [s EXCEPT !.df = DataFrame(with_lipinski), !.exception = "KeyError",
                       !.lipinski_calls = @ + 1]
        ELSE [s EXCEPT !.df = DataFrame(calculate_pic50(with_lipinski)),
                       !.lipinski_calls = @ + 1, !.pic50_calls = @ + 1]

\* if st.sidebar.button("Load Sample Dataset"): ...
SampleHandler(clicked, s) ==
    IF ~clicked THEN s
    ELSE IF ~sample.exists
    THEN [s EXCEPT !.data_loaded = TRUE, !.df = None]
    ELSE LoadTransforms([s EXCEPT !.data_loaded = TRUE, !.df = DataFrame(sample)])

\* missing_cols = [col for col in required_cols if col not in df.columns]
missing_cols(t) == required_cols \ t.cols

\* if uploaded_file is not None: ...
UploadHandler(file, s) ==
    IF s.exception # "none" \/ ~file.exists THEN s
    ELSE IF ~file.parses
    THEN [s EXCEPT !.data_loaded = TRUE, !.exception = "EmptyDataError"]
    ELSE IF missing_cols(file) # {}
    THEN [s EXCEPT !.data_loaded = FALSE, !.df = DataFrame(file),
                   !.missing_cols = missing_cols(file)]
    ELSE LoadTransforms([s EXCEPT !.data_loaded = TRUE, !.df = DataFrame(file)])

\* the session after the data-loading part of the script
Loading(clicked, file) ==
    UploadHandler(file,
        SampleHandler(clicked,
            [data_loaded |-> data_loaded, df |-> df, exception |-> "none",
             missing_cols |-> {}, lipinski_calls |-> 0, pic50_calls |-> 0]))

\* if st.session_state.data_loaded and hasattr(st.session_state, 'df') and df is not None
RenderGuard(s) == s.data_loaded /\ s.df.kind = "DataFrame"

\* the numbers present in a column
ColValues(rows, c) == {rows[i][c].v : i \in {j \in 1..Len(rows) : rows[j][c].kind = "num"}}

\* float(df[c].min()) and float(df[c].max()): missing cells skipped, nan when none is left
ColMin(rows, c) ==
    IF ColValues(rows, c) = {} THEN NaN
    ELSE Num(CHOOSE x \in ColValues(rows, c) : \A y \in ColValues(rows, c) : x <= y)

ColMax(rows, c) ==
    IF ColValues(rows, c) = {} THEN NaN
    ELSE Num(CHOOSE x \in ColValues(rows, c) : \A y \in ColValues(rows, c) : x >= y)

\* the (low, high) pairs a range slider between lo and hi can return; with nan
\* bounds the only value is the default (lo, hi)
slider(lo, hi) ==
    IF isnull(lo) \/ isnull(hi) THEN {<<lo, hi>>}
    ELSE {<<Num(p[1]), Num(p[2])>> : p \in {q \in (lo.v..hi.v) \X (lo.v..hi.v) : q[1] <= q[2]}}

\* Series.between with both ends left out (left < x < right)
between_exclusive(c, range) ==
    /\ c.kind = "num" /\ range[1].kind = "num" /\ range[2].kind = "num"
    /\ range[1].v < c.v /\ c.v < range[2].v

\* Series.between(left, right), inclusive; the same test as (x >= left) & (x <= right).
\* A comparison with nan on either side is False.
between(c, range) ==
    /\ c.kind = "num" /\ range[1].kind = "num" /\ range[2].kind = "num"
    /\ range[1].v <= c.v /\ c.v <= range[2].v

\* df['target'].unique().tolist()
targets(rows) == {rows[i]["target"] : i \in 1..Len(rows)}

\* a target filter that takes an empty selection as no filter
TargetFilterEmptyAllowsAll(rows, selected_targets) ==
    LET Keep(r) == selected_targets = {} \/ r["target"] \in selected_targets
    IN  SelectSeq(rows, Keep)

\* df[df['target'].isin(selected_targets)]
TargetFilter(rows, selected_targets) ==
    LET Keep(r) == r["target"] \in selected_targets
    IN  SelectSeq(rows, Keep)

\* if drug_like_only: df = df[df['is_drug_like']]
DrugLikeFilter(rows, drug_like_only) ==
    LET Keep(r) == r["is_drug_like"] = Bool(TRUE)
    IN  IF drug_like_only THEN SelectSeq(rows, Keep) ELSE rows

\* the table the slider bounds are taken from
Narrowed(rows, selected_targets, drug_like_only) ==
    DrugLikeFilter(TargetFilter(rows, selected_targets), drug_like_only)

\* not df['pIC50'].isnull().all()
Pic50Available(rows) == \E i \in 1..Len(rows) : ~isnull(rows[i]["pIC50"])

\* df[(df['pIC50'] >= pic50_range[0]) & (df['pIC50'] <= pic50_range[1])], or df
\* itself in the branch that warns that no pIC50 data is available
Pic50Filter(rows, pic50_range) ==
    LET Keep(r) == between(r["pIC50"], pic50_range)
    IN  IF Pic50Available(rows) THEN SelectSeq(rows, Keep) ELSE rows

\* filtered_df = df[df['mw'].between(...) & df['logp'].between(...)]
RangeFilter(rows, mw_range, logp_range) ==
    LET Keep(r) == between(r["mw"], mw_range) /\ between(r["logp"], logp_range)
    IN  SelectSeq(rows, Keep)

\* the filtering block, in the script's order
filtered_df(rows, selected_targets, drug_like_only, mw_range, logp_range, pic50_range) ==
    RangeFilter(Pic50Filter(Narrowed(rows, selected_targets, drug_like_only), pic50_range),
                mw_range, logp_range)

RECURSIVE SumOf(_, _)
SumOf(rows, c) ==
    IF rows = <<>> THEN 0
    ELSE (IF Head(rows)[c].kind = "num" THEN Head(rows)[c].v ELSE 0) + SumOf(Tail(rows), c)

\* n / d rounded to the nearest integer, d > 0, n >= 0
Rounded(n, d) == (2 * n + d) \div (2 * d)

\* drug_like_count / len(df) * 100 as shown with one decimal, in tenths of a
\* percent; a numpy integer divided by zero is nan, not an exception
DrugLikePct(count, total) == IF total = 0 THEN NaN ELSE Num(Rounded(count * 1000, total))

\* df['pIC50'].mean() as shown with two decimals, in hundredths: missing values
\* are skipped and the mean of nothing is nan
MeanPic50(rows) ==
    IF ColValues(rows, "pIC50") = {} THEN NaN
    ELSE Num(Rounded(SumOf(rows, "pIC50") * 100,
                     Cardinality({i \in 1..Len(rows) : rows[i]["pIC50"].kind = "num"})))

\* the columns the main section reads before it displays the filtered table
MainColumns == {"target", "is_drug_like", "pIC50", "mw", "logp"}

\* the main section with its overview metrics taken from the displayed rows
MainSectionOverFiltered(s, selected_targets, drug_like_only, mw_range, logp_range, pic50_range) ==
    LET rows == s.df.rows
        shown == filtered_df(rows, selected_targets, drug_like_only,
                             mw_range, logp_range, pic50_range)
        count == Len(DrugLikeFilter(shown, TRUE))
        narrowed == Narrowed(rows, selected_targets, drug_like_only)
    IN  [pass |-> "main", event |-> "none", exception |-> "none",
         missing_cols |-> s.missing_cols,
         lipinski_calls |-> s.lipinski_calls, pic50_calls |-> s.pic50_calls,
         mw_bounds |-> <<ColMin(narrowed, "mw"), ColMax(narrowed, "mw")>>,
         logp_bounds |-> <<ColMin(narrowed, "logp"), ColMax(narrowed, "logp")>>,
         pic50_bounds |-> <<ColMin(narrowed, "pIC50"), ColMax(narrowed, "pIC50")>>,
         total |-> Len(shown),
         unique_targets |-> Cardinality({t \in targets(shown) : ~isnull(t)}),
         drug_like_count |-> count,
         pct |-> DrugLikePct(count, Len(shown)),
         avg |-> MeanPic50(shown),
         selected_targets |-> selected_targets, drug_like_only |-> drug_like_only,
         mw_range |-> mw_range, logp_range |-> logp_range,
         pic50_slider |-> Pic50Available(narrowed),
         pic50_range |-> pic50_range,
         filtered_df |-> shown, plotted |-> shown # <<>>]

\* the main section for a table with all its columns and the given widget values
MainSection(s, selected_targets, drug_like_only, mw_range, logp_range, pic50_range) ==
    LET rows == s.df.rows
        count == Len(DrugLikeFilter(rows, TRUE))
        shown == filtered_df(rows, selected_targets, drug_like_only,
                             mw_range, logp_range, pic50_range)
        narrowed == Narrowed(rows, selected_targets, drug_like_only)
    IN  [pass |-> "main", event |-> "none", exception |-> "none",
         missing_cols |-> s.missing_cols,
         lipinski_calls |-> s.lipinski_calls, pic50_calls |-> s.pic50_calls,
         mw_bounds |-> <<ColMin(narrowed, "mw"), ColMax(narrowed, "mw")>>,
         logp_bounds |-> <<ColMin(narrowed, "logp"), ColMax(narrowed, "logp")>>,
         pic50_bounds |-> <<ColMin(narrowed, "pIC50"), ColMax(narrowed, "pIC50")>>,
         total |-> Len(rows),
         unique_targets |-> Cardinality({t \in targets(rows) : ~isnull(t)}),
         drug_like_count |-> count,
         pct |-> DrugLikePct(count, Len(rows)),
         avg |-> MeanPic50(rows),
         selected_targets |-> selected_targets, drug_like_only |-> drug_like_only,
         mw_range |-> mw_range, logp_range |-> logp_range,
         pic50_slider |-> Pic50Available(narrowed),
         pic50_range |-> pic50_range,
         filtered_df |-> shown, plotted |-> shown # <<>>]

\* what a pass shows when it does not get through the main section
NoMainView(s) ==
    [NoMain EXCEPT
        !.pass = IF s.exception # "none" THEN "aborted"
                 ELSE IF RenderGuard(s) THEN "main" ELSE "idle",
        !.exception = IF s.exception = "none" /\ RenderGuard(s) THEN "KeyError" ELSE s.exception,
        !.missing_cols = s.missing_cols,
        !.lipinski_calls = s.lipinski_calls, !.pic50_calls = s.pic50_calls,
        !.total = IF s.exception = "none" /\ RenderGuard(s) THEN Len(s.df.rows) ELSE 0]

\* the values a widget can hold in a pass: its default while untouched
Offered(untouched, values, default) == IF untouched THEN {default} ELSE values

\* One run of the script: the button state and the uploader's file are given;
\* the widget values are the user's, within what each widget offers.  With
\* untouched the widgets hold their defaults (every target, box unticked, full
\* ranges), as on the first pass that renders them.
Pass(clicked, file, untouched) ==
    LET s == Loading(clicked, file)
        event == IF clicked THEN "sample"
                 ELSE IF ~untouched THEN "filters"
                 ELSE IF file.exists THEN "upload" ELSE "remove"
    IN  /\ data_loaded' = s.data_loaded
        /\ df' = s.df
        /\ uploaded_file' = file
        /\ IF s.exception # "none" \/ ~RenderGuard(s) \/ ~(MainColumns \subseteq s.df.cols)
           THEN view' = [NoMainView(s) EXCEPT !.event = event]
           ELSE \E selected_targets \in Offered(untouched, SUBSET targets(s.df.rows),
                                                targets(s.df.rows)),
                   drug_like_only \in Offered(untouched, BOOLEAN, FALSE) :
                  LET narrowed == Narrowed(s.df.rows, selected_targets, drug_like_only)
                      mw_min == ColMin(narrowed, "mw")
                      mw_max == ColMax(narrowed, "mw")
                      logp_min == ColMin(narrowed, "logp")
                      logp_max == ColMax(narrowed, "logp")
                      pic50_min == ColMin(narrowed, "pIC50")
                      pic50_max == ColMax(narrowed, "pIC50")
                  IN  \E mw_range \in Offered(untouched, slider(mw_min, mw_max),
                                              <<mw_min, mw_max>>),
                         logp_range \in Offered(untouched, slider(logp_min, logp_max),
                                                <<logp_min, logp_max>>),
                         pic50_range \in Offered(untouched, slider(pic50_min, pic50_max),
                                                 <<pic50_min, pic50_max>>) :
                        view' = [MainSection(s, selected_targets, drug_like_only,
                                             mw_range, logp_range, pic50_range)
                                 EXCEPT !.event = event]
        /\ UNCHANGED <<fetch, input, caller, result, csv, batch, sample>>

\* the user clicks "Load Sample Dataset"
ClickLoadSample == Pass(TRUE, uploaded_file, TRUE)

\* the user puts a file in the uploader
Upload == \E f \in UploadFiles : Pass(FALSE, f, TRUE)

\* the user takes the file out of the uploader
RemoveUpload == uploaded_file.exists /\ Pass(FALSE, NoFile, TRUE)

\* the user changes a filter widget
ChangeFilters == Pass(FALSE, uploaded_file, FALSE)

Next == ClickLoadSample \/ Upload \/ RemoveUpload \/ ChangeFilters

Spec == Init /\ [][Next]_vars

-----------------------------------------------------------------------------
(* Claims about the dashboard *)

\* low <= value <= high, both ends included; false for a missing value or bound
InRange(c, range) ==
    /\ c.kind = "num" /\ range[1].kind = "num" /\ range[2].kind = "num"
    /\ c.v >= range[1].v /\ c.v <= range[2].v

\* a row meets every constraint of the pass at once; the pIC50 range is a
\* constraint of the pass when the pass offered the pIC50 slider
MeetsAll(r) ==
    /\ r["target"] \in view.selected_targets
    /\ view.drug_like_only => r["is_drug_like"].v = 1
    /\ InRange(r["mw"], view.mw_range)
    /\ InRange(r["logp"], view.logp_range)
    /\ view.pic50_slider => InRange(r["pIC50"], view.pic50_range)

C4_EmptyAllowListAllowsAll ==
    (view.pass = "main" /\ view.exception = "none" /\ view.selected_targets = {})
    => view.filtered_df =
         SelectSeq(df.rows, LAMBDA r : view.drug_like_only => r["is_drug_like"].v = 1)

\* C4 amended: with an empty target allow-list the target constraint allows no
\* row: the displayed table is empty whatever the loaded table holds.
C4_EmptyAllowListAllowsNone ==
    (view.pass = "main" /\ view.exception = "none" /\ view.selected_targets = {})
    => view.filtered_df = <<>>

\* every target of a two-row table deselected, and nothing displayed
C4_Witness ==
    /\ view.pass = "main"
    /\ view.exception = "none"
    /\ view.selected_targets = {}
    /\ ~view.drug_like_only
    /\ Len(df.rows) = 2
    /\ view.filtered_df = <<>>

\* C5: a row whose pIC50, mw or logp is missing is never in the displayed table.
C5_MissingNeverDisplayed ==
    view.pass = "main"
    => \A i \in 1..Len(view.filtered_df) :
         /\ ~isnull(view.filtered_df[i]["pIC50"])
         /\ ~isnull(view.filtered_df[i]["mw"])
         /\ ~isnull(view.filtered_df[i]["logp"])

\* C7: after an upload that lacks a required column no table is active.  The
\* rejected table stays in st.session_state.df until a load succeeds, so while
\* the session's table lacks a required column the main section is not rendered.
C7_RejectedUploadNeverRendered ==
    (df.kind = "DataFrame" /\ ~(required_cols \subseteq df.cols)) => view.pass # "main"

\* C8: for a table of zero rows the dataset overview completes without raising
\* and reports 0 rows, 0 drug-like compounds, 0% and an undefined mean pIC50.
C8_EmptyOverview ==
    (view.pass = "main" /\ view.total = 0 /\ MainColumns \subseteq df.cols)
    => /\ view.exception = "none"
       /\ view.drug_like_count = 0
       /\ view.pct = Num(0)
       /\ isnull(view.avg)

\* C11: in every pass the minimum and maximum of the mw, logp and pIC50 sliders
\* are the minimum and maximum of the column over the whole loaded, transformed
\* table, whatever the target selection and the drug-like box are.
C11_SliderBoundsFromWholeTable ==
    (view.pass = "main" /\ view.exception = "none")
    => /\ view.mw_bounds = <<ColMin(df.rows, "mw"), ColMax(df.rows, "mw")>>
       /\ view.logp_bounds = <<ColMin(df.rows, "logp"), ColMax(df.rows, "logp")>>
       /\ view.pic50_slider
            => view.pic50_bounds = <<ColMin(df.rows, "pIC50"), ColMax(df.rows, "pIC50")>>

\* C12: a pass triggered by a filter change alone runs neither
\* calculate_lipinski nor calculate_pic50 and leaves the session's table as it
\* was: the derived columns are computed once per load event.
C12_TransformsOncePerLoad ==
    [][view'.event = "filters"
       => (view'.lipinski_calls = 0 /\ view'.pic50_calls = 0 /\ df' = df)]_vars

\* the rows of a table that are drug-like, and those with a defined pIC50
DrugLikeRows(rows) == {i \in 1..Len(rows) : rows[i]["is_drug_like"].v = 1}
DefinedPic50Rows(rows) == {i \in 1..Len(rows) : rows[i]["pIC50"].kind = "num"}

\* the four overview metrics are those of the given rows: the row count, the
\* number of distinct targets, the drug-like count with its percentage to one
\* decimal, and the mean of the defined pIC50 values to two decimals
MetricsOf(rows) ==
    /\ view.total = Len(rows)
    /\ view.unique_targets =
         Cardinality({rows[i]["target"] : i \in {j \in 1..Len(rows) : ~isnull(rows[j]["target"])}})
    /\ view.drug_like_count = Cardinality(DrugLikeRows(rows))
    /\ IF rows = <<>> THEN isnull(view.pct)
       ELSE /\ view.pct.kind = "num"
            /\ 2 * Len(rows) * view.pct.v <= 2000 * Cardinality(DrugLikeRows(rows)) + Len(rows)
            /\ 2 * Len(rows) * view.pct.v > 2000 * Cardinality(DrugLikeRows(rows)) - Len(rows)
    /\ IF DefinedPic50Rows(rows) = {} THEN isnull(view.avg)
       ELSE LET n == Cardinality(DefinedPic50Rows(rows))
                total == SumOf(rows, "pIC50")
            IN  /\ view.avg.kind = "num"
                /\ 2 * n * view.avg.v <= 200 * total + n
                /\ 2 * n * view.avg.v > 200 * total - n

\* C13 as stated: the overview metrics are computed over the filtered table,
\* the rows that are displayed and plotted.
C13_MetricsOverFiltered ==
    (view.pass = "main" /\ view.exception = "none") => MetricsOf(view.filtered_df)

\* C13 amended: the overview metrics are computed over the whole loaded,
\* transformed table, before any filter is applied; they do not follow the
\* filter constraints.
C13_MetricsOverLoaded ==
    (view.pass = "main" /\ view.exception = "none") => MetricsOf(df.rows)

\* two rows loaded, one displayed, and the overview still counts two
C13_Witness ==
    /\ view.pass = "main"
    /\ view.exception = "none"
    /\ Len(df.rows) = 2
    /\ Len(view.filtered_df) = 1
    /\ view.total = 2
    /\ view.unique_targets = 2
    /\ view.drug_like_count = 1

\* the range a lies within the range b; a range with a missing end holds nothing
RangeWithin(a, b) ==
    \/ isnull(a[1]) \/ isnull(a[2])
    \/ /\ b[1].kind = "num" /\ b[2].kind = "num"
       /\ b[1].v <= a[1].v /\ a[2].v <= b[2].v

\* from one pass to the next, on the same loaded table, one kind of constraint
\* is widened and the others are as they were: targets are added to the
\* allow-list, or ranges are widened.  A pass that offers no pIC50 slider sets
\* no pIC50 range.
Widened ==
    /\ view.pass = "main" /\ view.exception = "none"
    /\ view'.pass = "main" /\ view'.exception = "none"
    /\ df' = df
    /\ view'.drug_like_only = view.drug_like_only
    /\ \/ /\ view.selected_targets \subseteq view'.selected_targets
          /\ view'.mw_range = view.mw_range
          /\ view'.logp_range = view.logp_range
          /\ (view.pic50_slider /\ view'.pic50_slider) => view'.pic50_range = view.pic50_range
       \/ /\ view'.selected_targets = view.selected_targets
          /\ RangeWithin(view.mw_range, view'.mw_range)
          /\ RangeWithin(view.logp_range, view'.logp_range)
          /\ RangeWithin(view.pic50_range, view'.pic50_range)

\* C14: filtering is monotonic: for a fixed loaded table, widening a range or
\* adding a target to the allow-list, the other constraints unchanged, never
\* decreases the number of rows of the filtered table.
C14_FilteringMonotonic ==
    [][Widened => Len(view'.filtered_df) >= Len(view.filtered_df)]_vars

\* the session a pass ends with when the uploaded file alone decides it: the
\* file's transformed table with data_loaded set, or data_loaded unset and the
\* file's table as read when it lacks a required column
DecidedByUpload ==
    LET t == [cols |-> uploaded_file.cols, rows |-> uploaded_file.rows]
    IN  IF uploaded_file.parses /\ required_cols \subseteq uploaded_file.cols
        THEN data_loaded /\ df = DataFrame(calculate_pic50(calculate_lipinski(t)))
        ELSE ~data_loaded /\ df = DataFrame(t)

\* C17: the upload handler runs after the sample-load handler and overwrites
\* its result: a pass in which "Load Sample Dataset" is clicked while a file is
\* in the uploader ends with the session decided by the uploaded file alone.
\* The session's table then stays the uploaded file's, so the sample dataset is
\* not the one displayed.
C17_UploadOverridesSample ==
    (view.event = "sample" /\ uploaded_file.exists) => DecidedByUpload

=============================================================================
